---- MODULE Spec2Model ----
(***************************************************************************)
(* ReefGuard (Django application "core"): the relational store declared in *)
(* core/models.py, the request handlers of core/views.py and the forms of  *)
(* core/forms.py, as a state machine.                                      *)
(*                                                                         *)
(* The store is one set of rows per table.  Primary keys are positive      *)
(* integers handed out by a per-table counter; a null foreign key is NULL. *)
(* Text is a sequence of one-character strings, so that substring search   *)
(* and case folding are computed, not assumed.                             *)
(***************************************************************************)
EXTENDS Integers, Sequences, FiniteSets, TLC

VARIABLES
    users,      \* CustomUser rows: set of user ids
    reefs,      \* Reef rows
    events,     \* Event rows
    articles,   \* Article rows
    gallery,    \* ImageGallery rows
    bookmarks,  \* ReefBookmark rows
    nextId,     \* per-table primary-key counters
    calls,      \* bookmark_toggle: per worker, the calls it has handled
    session,    \* request.session of one visitor
    viewLog,    \* history: the reef ids of the successful detail views
    resp,       \* the last listing response
    last,       \* history: the last store operation and what it met
    built       \* the last Event instance a submission form built

vars == <<users, reefs, events, articles, gallery, bookmarks, nextId, calls,
          session, viewLog, resp, last, built>>

storeVars == <<users, reefs, events, articles, gallery, bookmarks, nextId>>

----------------------------------------------------------------------------
(* Values *)

\* null=True foreign keys; also AnonymousUser, whose pk is None
NULL == 0

\* the lower-case letter of each upper-case letter
LowerOf ==
    [A |-> "a", B |-> "b", C |-> "c", D |-> "d", E |-> "e", F |-> "f", G |-> "g",
     H |-> "h", I |-> "i", J |-> "j", K |-> "k", L |-> "l", M |-> "m", N |-> "n",
     O |-> "o", P |-> "p", Q |-> "q", R |-> "r", S |-> "s", T |-> "t", U |-> "u",
     V |-> "v", W |-> "w", X |-> "x", Y |-> "y", Z |-> "z"]

\* str.lower() on a character
Lower(c) == IF c \in DOMAIN LowerOf THEN LowerOf[c] ELSE c

\* field__icontains=q : q occurs in the field, letter case ignored
icontains(text, q) ==
    \E off \in 0..(Len(text) - Len(q)) :
        \A j \in 1..Len(q) : Lower(text[off + j]) = Lower(q[j])

RECURSIVE SetToSeqs(_)
\* every ordering of a finite set, as sequences
SetToSeqs(S) ==
    IF S = {} THEN {<<>>}
    ELSE UNION {{<<x>> \o s : s \in SetToSeqs(S \ {x})} : x \in S}

\* the elements of a sequence
Range(s) == {s[i] : i \in 1..Len(s)}

----------------------------------------------------------------------------
(* Schema: core/models.py *)

\* Reef.region choices
REGION_CHOICES == {"caribbean", "pacific", "indian", "red_sea", "atlantic"}

\* Reef.health_status choices
HEALTH_CHOICES == {"excellent", "good", "fair", "poor", "critical"}

\* Event.event_type choices
EVENT_TYPE_CHOICES ==
    {"pollution", "sighting", "bleaching", "restoration", "monitoring", "damage"}

\* Event.severity choices
SEVERITY_CHOICES == {"low", "medium", "high", "critical"}

\* Event.severity default
SEVERITY_DEFAULT == "medium"

\* ReefBookmark.Meta.unique_together, as a set of field sets
ReefBookmark_unique_none == {}

ReefBookmark_unique_together == {{"user", "reef"}}

\* the store rejects an INSERT that repeats the constrained fields of a row
UniqueViolation(rows, row) ==
    \E c \in ReefBookmark_unique_together :
        \E b \in rows : \A f \in c : b[f] = row[f]

----------------------------------------------------------------------------
(* Bounds *)

\* web workers that handle requests concurrently
NumWorkers == 2

\* bookmark_toggle requests the workers handle in all
MaxCalls == 3

Workers == 1..NumWorkers

\* request.user of a toggle request: a logged-in user or AnonymousUser
ToggleActors == {1, NULL}

\* reef_id of a toggle request: reef 1 exists, reef 2 does not
ToggleReefIds == {1, 2}

----------------------------------------------------------------------------
(* bookmark_toggle: core/views.py *)

\* a Reef row
ReefRow(id, name, country, description, region, health, area, created_at, by) ==
    [id |-> id, name |-> name, country |-> country, description |-> description,
     region |-> region, health_status |-> health, area_km2 |-> area,
     created_at |-> created_at, created_by |-> by]

\* a ReefBookmark row
BookmarkRow(id, user, reef, notes) ==
    [id |-> id, user |-> user, reef |-> reef, notes |-> notes]

\* the rows of one (user, reef) pair
PairRows(rows, user, reef) == {b \in rows : b.user = user /\ b.reef = reef}

\* `if not request.user.is_authenticated`
UnauthenticatedNever(actor) == FALSE

Unauthenticated(actor) == actor = NULL

\* the call a worker is handling, or has handled last
Current(p) == calls[p][Len(calls[p])]

RECURSIVE CallsOf(_)
\* the number of calls the workers of a set have begun
CallsOf(W) ==
    IF W = {} THEN 0
    ELSE LET p == CHOOSE w \in W : TRUE
         IN  Len(calls[p]) + CallsOf(W \ {p})

Idle(p) == IF calls[p] = <<>> THEN TRUE ELSE Current(p).pc = "done"

At(p, pc) == IF calls[p] = <<>> THEN FALSE ELSE Current(p).pc = pc

\* history: a step of worker q on (actor, reef_id) is seen by the latest call
\* of every other worker on the same pair
Seen(cs, q, actor, reef_id) ==
    [p \in Workers |->
        IF p /= q /\ cs[p] /= <<>>
           /\ cs[p][Len(cs[p])].actor = actor
           /\ cs[p][Len(cs[p])].reef_id = reef_id
        THEN [cs[p] EXCEPT ![Len(cs[p])].quiet = FALSE]
        ELSE cs[p]]

\* worker p's current call, changed to c, and the step recorded
Step(p, c) ==
    calls' = Seen([calls EXCEPT ![p][Len(calls[p])] = c], p, c.actor, c.reef_id)

\* the call ends with an answer
Answer(c, status, bookmarked, error, rows) ==
    [c EXCEPT !.pc = "done", !.status = status, !.bookmarked = bookmarked,
              !.error = error, !.after = rows]

\* lines 317-320: the authentication check, then get_object_or_404(Reef, pk=reef_id)
bookmark_toggle(p, actor, reef_id) ==
    /\ Idle(p)
    /\ CallsOf(Workers) < MaxCalls
    /\ LET c0 == [actor |-> actor, reef_id |-> reef_id, pc |-> "get",
                  bookmark |-> NULL, status |-> 0, bookmarked |-> "none",
                  error |-> FALSE, before |-> bookmarks, after |-> {},
                  quiet |-> \A q \in Workers \ {p} :
                              ~(calls[q] /= <<>> /\ Current(q).pc /= "done"
                                /\ Current(q).actor = actor
                                /\ Current(q).reef_id = reef_id)]
           c == IF Unauthenticated(actor)
                THEN Answer(c0, 401, "none", TRUE, bookmarks)
                ELSE IF ~(\E r \in reefs : r.id = reef_id)
                THEN Answer(c0, 404, "none", TRUE, bookmarks)
                ELSE c0
       IN  calls' = Seen([calls EXCEPT ![p] = Append(calls[p], c)], p, actor, reef_id)
    /\ UNCHANGED <<storeVars, session, viewLog, resp, last, built>>

\* lines 322-325, get_or_create: the SELECT
get_or_create_get(p) ==
    /\ At(p, "get")
    /\ LET c == Current(p)
           found == PairRows(bookmarks, c.actor, c.reef_id)
       IN  IF Cardinality(found) > 1
           THEN \* MultipleObjectsReturned
                Step(p, Answer(c, 500, "none", TRUE, bookmarks))
           ELSE IF found /= {}
           THEN Step(p, [c EXCEPT !.pc = "delete",
                                  !.bookmark = (CHOOSE b \in found : TRUE).id])
           ELSE Step(p, [c EXCEPT !.pc = "create"])
    /\ UNCHANGED <<storeVars, session, viewLog, resp, last, built>>

\* get_or_create: the INSERT after the SELECT found nothing
get_or_create_create(p) ==
    /\ At(p, "create")
    /\ LET c == Current(p)
           row == BookmarkRow(nextId.bookmark, c.actor, c.reef_id, <<>>)
       IN  IF UniqueViolation(bookmarks, row)
           THEN \* IntegrityError: get_or_create looks the row up again
                /\ Step(p, [c EXCEPT !.pc = "reget"])
                /\ UNCHANGED <<bookmarks, nextId>>
           ELSE \* created = True, lines 332-334
                /\ bookmarks' = bookmarks \cup {row}
                /\ nextId' = [nextId EXCEPT !.bookmark = @ + 1]
                /\ Step(p, Answer([c EXCEPT !.bookmark = row.id], 200, "true",
                                  FALSE, bookmarks'))
    /\ UNCHANGED <<users, reefs, events, articles, gallery,
                   session, viewLog, resp, last, built>>

\* get_or_create: the SELECT after the INSERT was rejected
get_or_create_reget(p) ==
    /\ At(p, "reget")
    /\ LET c == Current(p)
           found == PairRows(bookmarks, c.actor, c.reef_id)
       IN  IF Cardinality(found) = 1
           THEN Step(p, [c EXCEPT !.pc = "delete",
                                  !.bookmark = (CHOOSE b \in found : TRUE).id])
           ELSE \* the IntegrityError is raised again
                Step(p, Answer(c, 500, "none", TRUE, bookmarks))
    /\ UNCHANGED <<storeVars, session, viewLog, resp, last, built>>

\* lines 327-331: bookmark.delete(), a DELETE by primary key
bookmark_delete_keep(p) ==
    /\ At(p, "delete")
    /\ Step(p, Answer(Current(p), 200, "false", FALSE, bookmarks))
    /\ UNCHANGED <<storeVars, session, viewLog, resp, last, built>>

bookmark_delete(p) ==
    /\ At(p, "delete")
    /\ bookmarks' = {b \in bookmarks : b.id /= Current(p).bookmark}
    /\ Step(p, Answer(Current(p), 200, "false", FALSE, bookmarks'))
    /\ UNCHANGED <<users, reefs, events, articles, gallery, nextId,
                   session, viewLog, resp, last, built>>

----------------------------------------------------------------------------
(* Initial values shared by the specifications *)

\* a new session: a dict with no key
NoSession == [k \in {} |-> <<>>]

SessionOnly(sess, key, value) == [k \in {key} |-> value]

\* session[key] = value
SessionSet(sess, key, value) ==
    [k \in DOMAIN sess \cup {key} |-> IF k = key THEN value ELSE sess[k]]

NoResponse == [view |-> "none"]

NoOp == [op |-> "none", id |-> NULL, had |-> {}]

NoForm == [form |-> "none", outcome |-> "none"]

FirstIds ==
    [user |-> 1, reef |-> 1, event |-> 1, article |-> 1, gallery |-> 1,
     bookmark |-> 1]

IdleRest ==
    /\ session = NoSession
    /\ viewLog = <<>>
    /\ resp = NoResponse
    /\ last = NoOp
    /\ built = NoForm

----------------------------------------------------------------------------
(* SpecToggle: concurrent bookmark_toggle requests on a store that holds   *)
(* one user and one reef; the user's bookmark of the reef is absent, or    *)
(* was added before (through ReefBookmarkAdmin, with or without notes)     *)

\* ReefBookmark.notes of the bookmark the store starts with
ToggleNotes == {<<>>, <<"n">>}

InitToggle ==
    /\ users = {1}
    /\ reefs = {ReefRow(1, <<"a">>, <<"a">>, <<"a">>, "pacific", "fair", 1, 1, NULL)}
    /\ events = {}
    /\ articles = {}
    /\ gallery = {}
    /\ \/ bookmarks = {} /\ nextId = [FirstIds EXCEPT !.user = 2, !.reef = 2]
       \/ \E notes \in ToggleNotes :
               /\ bookmarks = {BookmarkRow(1, 1, 1, notes)}
               /\ nextId = [FirstIds EXCEPT !.user = 2, !.reef = 2, !.bookmark = 2]
    /\ calls = [p \in Workers |-> <<>>]
    /\ IdleRest

NextToggle ==
    \E p \in Workers :
        \/ \E actor \in ToggleActors, reef_id \in ToggleReefIds :
               bookmark_toggle(p, actor, reef_id)
        \/ get_or_create_get(p)
        \/ get_or_create_create(p)
        \/ get_or_create_reget(p)
        \/ bookmark_delete(p)

SpecToggle == InitToggle /\ [][NextToggle]_vars

----------------------------------------------------------------------------
(* Claims on bookmark_toggle *)

\* what a set of bookmark rows says, primary keys aside
Content(rows) == {[user |-> b.user, reef |-> b.reef, notes |-> b.notes] : b \in rows}

\* the (user, reef) pairs a set of bookmark rows bookmarks
Pairs(rows) == {<<b.user, b.reef>> : b \in rows}

\* two successive calls of one worker by the same authenticated user on the
\* same existing reef, with no other toggle on that pair running in between
SuccessiveToggles(p, i) ==
    LET c1 == calls[p][i]
        c2 == calls[p][i + 1]
    IN  /\ c1.actor /= NULL
        /\ c2.actor = c1.actor
        /\ c2.reef_id = c1.reef_id
        /\ \E r \in reefs : r.id = c1.reef_id
        /\ c2.pc = "done"
        /\ c1.quiet
        /\ c2.quiet

\* starting from no bookmark, the first call creates exactly one row and
\* answers bookmarked=true, the second deletes it and answers bookmarked=false
FromAbsent(c1, c2) ==
    PairRows(c1.before, c1.actor, c1.reef_id) = {}
    => /\ Cardinality(PairRows(c1.after, c1.actor, c1.reef_id)) = 1
       /\ Cardinality(c1.after) = Cardinality(c1.before) + 1
       /\ c1.status = 200 /\ c1.bookmarked = "true"
       /\ c2.status = 200 /\ c2.bookmarked = "false"
       /\ PairRows(c2.after, c1.actor, c1.reef_id) = {}

\* C1 as stated: two successive bookmark_toggle calls return the set of
\* bookmarks to its original state (the rows of the pair say what they said
\* before), and from no bookmark the first call creates one row and answers
\* bookmarked=true, the second deletes it and answers bookmarked=false.
C1_TwoTogglesRestoreRows ==
    \A p \in Workers : \A i \in 1..(Len(calls[p]) - 1) :
        SuccessiveToggles(p, i) =>
            LET c1 == calls[p][i]
                c2 == calls[p][i + 1]
            IN  /\ Content(PairRows(c2.after, c1.actor, c1.reef_id))
                     = Content(PairRows(c1.before, c1.actor, c1.reef_id))
                /\ FromAbsent(c1, c2)

\* C1 amended: two successive bookmark_toggle calls return the set of
\* bookmarked (user, reef) pairs to its original state: the pair is bookmarked
\* afterwards exactly if it was before, by exactly as many rows; from no
\* bookmark the first call creates one row and answers bookmarked=true, the
\* second deletes it and answers bookmarked=false.
C1_TwoTogglesRestorePairs ==
    \A p \in Workers : \A i \in 1..(Len(calls[p]) - 1) :
        SuccessiveToggles(p, i) =>
            LET c1 == calls[p][i]
                c2 == calls[p][i + 1]
            IN  /\ Pairs(PairRows(c2.after, c1.actor, c1.reef_id))
                     = Pairs(PairRows(c1.before, c1.actor, c1.reef_id))
                /\ Cardinality(PairRows(c2.after, c1.actor, c1.reef_id))
                     = Cardinality(PairRows(c1.before, c1.actor, c1.reef_id))
                /\ FromAbsent(c1, c2)

\* C1 witness: a worker toggled three times undisturbed: twice from no
\* bookmark, and twice from the bookmark its first call created
C1_Witness ==
    \E p \in Workers :
        /\ Len(calls[p]) = 3
        /\ SuccessiveToggles(p, 1) /\ SuccessiveToggles(p, 2)
        /\ calls[p][1].before = {}
        /\ calls[p][1].bookmarked = "true"
        /\ calls[p][2].bookmarked = "false"
        /\ calls[p][3].bookmarked = "true"

\* C2: in every reachable state, the intermediate states of interleaved
\* bookmark_toggle calls included, the store holds at most one ReefBookmark
\* row for any (user, reef) pair.
C2_AtMostOneRowPerPair ==
    \A b1 \in bookmarks : \A b2 \in bookmarks :
        (b1.user = b2.user /\ b1.reef = b2.reef) => b1 = b2

\* C2 witness: two calls for the same pair both found no bookmark; one has
\* inserted its row and the other's INSERT was rejected
C2_Witness ==
    \E p \in Workers : \E q \in Workers \ {p} :
        /\ At(q, "reget")
        /\ calls[p] /= <<>>
        /\ Current(p).bookmarked = "true"
        /\ Current(p).actor = Current(q).actor
        /\ Current(p).reef_id = Current(q).reef_id
        /\ PairRows(Current(q).before, Current(q).actor, Current(q).reef_id) = {}
        /\ Cardinality(PairRows(bookmarks, Current(q).actor, Current(q).reef_id)) = 1

\* C3: a bookmark_toggle call by an unauthenticated actor ends in the error
\* outcome (status 401, an error body), for every reef id, and leaves the set
\* of ReefBookmark rows as it was.
C3_UnauthenticatedRejected ==
    \A p \in Workers : \A i \in 1..Len(calls[p]) :
        LET c == calls[p][i]
        IN  c.actor = NULL =>
                /\ c.pc = "done"
                /\ c.status = 401
                /\ c.error
                /\ c.bookmarked = "none"
                /\ c.after = c.before

\* C3 witness: anonymous calls were answered both for the reef that exists and
\* for an id no reef has, with a bookmark in the store
C3_Witness ==
    /\ bookmarks /= {}
    /\ \E p \in Workers : \E i \in 1..Len(calls[p]) :
           /\ calls[p][i].actor = NULL /\ calls[p][i].reef_id = 1
           /\ calls[p][i].status = 401 /\ calls[p][i].before /= {}
    /\ \E p \in Workers : \E i \in 1..Len(calls[p]) :
           /\ calls[p][i].actor = NULL /\ calls[p][i].reef_id = 2
           /\ calls[p][i].status = 401

----------------------------------------------------------------------------
(* ReefDetailView: core/views.py, the recently viewed reefs of a session *)

\* reefs in the store of SpecSession
NumReefs == 11

\* detail views of a reef the session has viewed before
MaxReviews == 2

\* `viewed_reefs[:10]`: the length the list is cut to
VIEWED_KEEP == 10

\* list.remove(x): the list without the first occurrence of x
RemoveFirstKeep(list, x) == list

RemoveFirst(list, x) ==
    LET i == CHOOSE k \in 1..Len(list) :
                 list[k] = x /\ \A j \in 1..(k - 1) : list[j] /= x
    IN  SubSeq(list, 1, i - 1) \o SubSeq(list, i + 1, Len(list))

\* list[:n]
Take(list, n) == SubSeq(list, 1, IF Len(list) < n THEN Len(list) ELSE n)

\* lines 163-173: the session's viewed_reefs after a view of reef_id
TrackViewed(sess, reef_id) ==
    LET viewed0 == IF "viewed_reefs" \notin DOMAIN sess
                   THEN <<>>
                   ELSE sess["viewed_reefs"]
        viewed1 == IF reef_id \in Range(viewed0)
                   THEN RemoveFirst(viewed0, reef_id)
                   ELSE viewed0
        viewed2 == <<reef_id>> \o viewed1
    IN  SessionSet(sess, "viewed_reefs", Take(viewed2, VIEWED_KEEP))

\* the reefs whose detail page the session has requested with success
Viewed == Range(viewLog)

\* the views of reefs that had been viewed before
Reviews == Len(viewLog) - Cardinality(Viewed)

\* GET of the detail page of a reef that exists.  Reef ids are interchangeable
\* (the handler only compares them), so reefs are first viewed in id order.
ReefDetailView(reef_id) ==
    /\ \E r \in reefs : r.id = reef_id
    /\ \/ reef_id \in Viewed /\ Reviews < MaxReviews
       \/ reef_id \notin Viewed /\ \A k \in 1..(reef_id - 1) : k \in Viewed
    /\ session' = TrackViewed(session, reef_id)
    /\ viewLog' = Append(viewLog, reef_id)
    /\ UNCHANGED <<storeVars, calls, resp, last, built>>

\* GET of the detail page of an id no reef has: get_object raises Http404
\* before get_context_data touches the session
ReefDetailView_404(reef_id) ==
    /\ ~(\E r \in reefs : r.id = reef_id)
    /\ UNCHANGED vars

InitSession ==
    /\ users = {}
    /\ reefs = {ReefRow(i, <<"a">>, <<"a">>, <<"a">>, "pacific", "fair", 1, i, NULL) :
                  i \in 1..NumReefs}
    /\ events = {}
    /\ articles = {}
    /\ gallery = {}
    /\ bookmarks = {}
    /\ nextId = [FirstIds EXCEPT !.reef = NumReefs + 1]
    /\ calls = [p \in Workers |-> <<>>]
    /\ IdleRest

NextSession ==
    \/ \E reef_id \in 1..NumReefs : ReefDetailView(reef_id)
    \/ ReefDetailView_404(NumReefs + 1)

SpecSession == InitSession /\ [][NextSession]_vars

\* the position of the latest view of each viewed reef in the history
LastView ==
    [x \in Viewed |->
        CHOOSE i \in 1..Len(viewLog) :
            viewLog[i] = x /\ \A j \in (i + 1)..Len(viewLog) : viewLog[j] /= x]

\* C4: after any sequence of successful reef detail views from an empty
\* session, viewed_reefs holds the distinct reef ids viewed, latest view
\* first, cut to its first 10 entries: no id twice, never more than 10 ids;
\* the views R1, R2, R1, R3 give [R3, R1, R2].
C4_RecentlyViewed ==
    viewLog /= <<>> =>
        /\ "viewed_reefs" \in DOMAIN session
        /\ LET v == session["viewed_reefs"]
               lv == LastView
           IN  /\ Len(v) <= 10
               /\ Len(v) = (IF Cardinality(Viewed) < 10
                            THEN Cardinality(Viewed) ELSE 10)
               /\ Range(v) \subseteq Viewed
               /\ \A i \in 1..(Len(v) - 1) : lv[v[i]] > lv[v[i + 1]]
               /\ \A x \in Viewed \ Range(v) : lv[x] < lv[v[Len(v)]]
               /\ (viewLog = <<1, 2, 1, 3>> => v = <<3, 1, 2>>)

\* C4 witness: eleven reefs were viewed, one of the kept ones twice, and the
\* reef viewed first has dropped off the list of 10
C4_Witness ==
    /\ Cardinality(Viewed) = 11
    /\ Reviews > 0
    /\ Len(session["viewed_reefs"]) = 10
    /\ 1 \notin Range(session["viewed_reefs"])

----------------------------------------------------------------------------
(* The store's rows and their deletion: core/models.py, core/admin.py *)

\* rows added to the store in all, over all tables
MaxRows == 3

\* an Event row
EventRow(id, reef, event_type, severity, event_date, created_at, resolved, by) ==
    [id |-> id, reef |-> reef, event_type |-> event_type, severity |-> severity,
     event_date |-> event_date, created_at |-> created_at, resolved |-> resolved,
     reported_by |-> by]

\* an Article row
ArticleRow(id, title, content, excerpt, category, created_at, published, author) ==
    [id |-> id, title |-> title, content |-> content, excerpt |-> excerpt,
     category |-> category, created_at |-> created_at, published |-> published,
     author |-> author]

\* an ImageGallery row
GalleryRow(id, reef, event, media_type, by) ==
    [id |-> id, reef |-> reef, event |-> event, media_type |-> media_type,
     uploaded_by |-> by]

\* the primary keys of a table
Ids(rows) == {r.id : r \in rows}

\* on_delete of each foreign key
Reef_created_by_on_delete_cascade == "CASCADE"

Reef_created_by_on_delete == "SET_NULL"

Event_reef_on_delete_nothing == "DO_NOTHING"

Event_reef_on_delete == "CASCADE"

Event_reported_by_on_delete == "SET_NULL"

Article_author_on_delete == "SET_NULL"

ImageGallery_reef_on_delete == "CASCADE"

ImageGallery_event_on_delete_set_null == "SET_NULL"

ImageGallery_event_on_delete == "CASCADE"

ImageGallery_uploaded_by_on_delete == "SET_NULL"

ReefBookmark_user_on_delete == "CASCADE"

ReefBookmark_reef_on_delete == "CASCADE"

\* the rows a deletion of the rows `gone` of the referenced table takes along
Cascaded(rows, field, policy, gone) ==
    IF policy = "CASCADE" THEN {r \in rows : r[field] \in gone} ELSE {}

\* a table after a deletion of the rows `gone` of the referenced table
OnDelete(rows, field, policy, gone) ==
    IF policy = "CASCADE" THEN {r \in rows : r[field] \notin gone}
    ELSE IF policy = "SET_NULL"
    THEN {IF r[field] \in gone THEN [r EXCEPT ![field] = NULL] ELSE r : r \in rows}
    ELSE rows

\* rows added so far to the store that starts with a user, a reef and an event
RowsCreated ==
    (nextId.user - 2) + (nextId.reef - 2) + (nextId.event - 2)
    + (nextId.article - 1) + (nextId.gallery - 1) + (nextId.bookmark - 1)

\* the store operations leave the handlers' state alone; history: a deletion
\* of a user or of a reef is recorded, with what referred to the row
StoreOp(what) ==
    /\ last' = what
    /\ UNCHANGED <<calls, session, viewLog, resp, built>>

CustomUser_create ==
    /\ RowsCreated < MaxRows
    /\ users' = users \cup {nextId.user}
    /\ nextId' = [nextId EXCEPT !.user = @ + 1]
    /\ StoreOp(NoOp)
    /\ UNCHANGED <<reefs, events, articles, gallery, bookmarks>>

Reef_create(by) ==
    /\ RowsCreated < MaxRows
    /\ reefs' = reefs \cup {ReefRow(nextId.reef, <<"a">>, <<"a">>, <<"a">>, "pacific",
                                    "fair", 1, nextId.reef, by)}
    /\ nextId' = [nextId EXCEPT !.reef = @ + 1]
    /\ StoreOp(NoOp)
    /\ UNCHANGED <<users, events, articles, gallery, bookmarks>>

Event_create(reef, by) ==
    /\ RowsCreated < MaxRows
    /\ events' = events \cup {EventRow(nextId.event, reef, "bleaching", SEVERITY_DEFAULT,
                                       1, nextId.event, FALSE, by)}
    /\ nextId' = [nextId EXCEPT !.event = @ + 1]
    /\ StoreOp(NoOp)
    /\ UNCHANGED <<users, reefs, articles, gallery, bookmarks>>

Article_create(author) ==
    /\ RowsCreated < MaxRows
    /\ articles' = articles \cup {ArticleRow(nextId.article, <<"a">>, <<"a">>, <<"a">>,
                                             "news", nextId.article, FALSE, author)}
    /\ nextId' = [nextId EXCEPT !.article = @ + 1]
    /\ StoreOp(NoOp)
    /\ UNCHANGED <<users, reefs, events, gallery, bookmarks>>

ImageGallery_create(reef, event, by) ==
    /\ RowsCreated < MaxRows
    /\ gallery' = gallery \cup {GalleryRow(nextId.gallery, reef, event, "photo", by)}
    /\ nextId' = [nextId EXCEPT !.gallery = @ + 1]
    /\ StoreOp(NoOp)
    /\ UNCHANGED <<users, reefs, events, articles, bookmarks>>

\* a bookmark added by a toggle, or through ReefBookmarkAdmin; the foreign
\* keys user and reef are constraints of the table: the INSERT of a toggle
\* that arrives after its user or its reef was deleted is refused
ReefBookmark_create(user, reef) ==
    /\ RowsCreated < MaxRows
    /\ user \in users
    /\ reef \in Ids(reefs)
    /\ ~UniqueViolation(bookmarks, BookmarkRow(nextId.bookmark, user, reef, <<>>))
    /\ bookmarks' = bookmarks \cup {BookmarkRow(nextId.bookmark, user, reef, <<>>)}
    /\ nextId' = [nextId EXCEPT !.bookmark = @ + 1]
    /\ StoreOp(NoOp)
    /\ UNCHANGED <<users, reefs, events, articles, gallery>>

\* a bookmark removed by a toggle
ReefBookmark_delete(id) ==
    /\ bookmarks' = {b \in bookmarks : b.id /= id}
    /\ StoreOp(NoOp)
    /\ UNCHANGED <<users, reefs, events, articles, gallery, nextId>>

\* what refers to a user: the tables with a row that does
RefersToUser(u) ==
    {t \in {"reef", "event", "article", "gallery", "bookmark"} :
        \/ t = "reef" /\ \E r \in reefs : r.created_by = u
        \/ t = "event" /\ \E e \in events : e.reported_by = u
        \/ t = "article" /\ \E a \in articles : a.author = u
        \/ t = "gallery" /\ \E g \in gallery : g.uploaded_by = u
        \/ t = "bookmark" /\ \E b \in bookmarks : b.user = u}

\* user.delete()
CustomUser_delete(u) ==
    LET goneReefs == Cascaded(reefs, "created_by", Reef_created_by_on_delete, {u})
        goneEvents ==
            Cascaded(events, "reported_by", Event_reported_by_on_delete, {u})
            \cup Cascaded(events, "reef", Event_reef_on_delete, Ids(goneReefs))
    IN
    /\ users' = users \ {u}
    /\ reefs' = OnDelete(reefs, "created_by", Reef_created_by_on_delete, {u})
    /\ events' = OnDelete(OnDelete(events, "reported_by", Event_reported_by_on_delete, {u}),
                          "reef", Event_reef_on_delete, Ids(goneReefs))
    /\ articles' = OnDelete(articles, "author", Article_author_on_delete, {u})
    /\ gallery' =
         OnDelete(OnDelete(OnDelete(gallery, "uploaded_by",
                                    ImageGallery_uploaded_by_on_delete, {u}),
                           "reef", ImageGallery_reef_on_delete, Ids(goneReefs)),
                  "event", ImageGallery_event_on_delete, Ids(goneEvents))
    /\ bookmarks' = OnDelete(OnDelete(bookmarks, "user", ReefBookmark_user_on_delete, {u}),
                             "reef", ReefBookmark_reef_on_delete, Ids(goneReefs))
    /\ StoreOp([op |-> "delete_user", id |-> u, had |-> RefersToUser(u)])
    /\ UNCHANGED nextId

\* what refers to a reef: its events, the gallery items linked to it, the
\* gallery items linked only to one of its events, its bookmarks
RefersToReef(r) ==
    {t \in {"event", "gallery_reef", "gallery_event", "bookmark", "other"} :
        \/ t = "event" /\ \E e \in events : e.reef = r
        \/ t = "gallery_reef" /\ \E g \in gallery : g.reef = r
        \/ t = "gallery_event" /\ \E g \in gallery : g.reef /= r /\
               \E e \in events : e.reef = r /\ g.event = e.id
        \/ t = "bookmark" /\ \E b \in bookmarks : b.reef = r
        \/ t = "other" /\ \E g \in gallery : g.reef /= r /\
               ~(\E e \in events : e.reef = r /\ g.event = e.id)}

\* reef.delete()
Reef_delete(r) ==
    LET goneEvents == Cascaded(events, "reef", Event_reef_on_delete, {r})
    IN
    /\ reefs' = {x \in reefs : x.id /= r}
    /\ events' = OnDelete(events, "reef", Event_reef_on_delete, {r})
    /\ gallery' = OnDelete(OnDelete(gallery, "reef", ImageGallery_reef_on_delete, {r}),
                           "event", ImageGallery_event_on_delete, Ids(goneEvents))
    /\ bookmarks' = OnDelete(bookmarks, "reef", ReefBookmark_reef_on_delete, {r})
    /\ StoreOp([op |-> "delete_reef", id |-> r, had |-> RefersToReef(r)])
    /\ UNCHANGED <<users, articles, nextId>>

\* event.delete()
Event_delete(e) ==
    /\ events' = {x \in events : x.id /= e}
    /\ gallery' = OnDelete(gallery, "event", ImageGallery_event_on_delete, {e})
    /\ StoreOp(NoOp)
    /\ UNCHANGED <<users, reefs, articles, bookmarks, nextId>>

\* gallery_item.delete()
ImageGallery_delete(g) ==
    /\ gallery' = {x \in gallery : x.id /= g}
    /\ StoreOp(NoOp)
    /\ UNCHANGED <<users, reefs, events, articles, bookmarks, nextId>>

\* the store holds a user, a reef the user has created and an event on the
\* reef the user has reported
InitStore ==
    /\ users = {1}
    /\ reefs = {ReefRow(1, <<"a">>, <<"a">>, <<"a">>, "pacific", "fair", 1, 1, 1)}
    /\ events = {EventRow(1, 1, "bleaching", SEVERITY_DEFAULT, 1, 1, FALSE, 1)}
    /\ articles = {}
    /\ gallery = {}
    /\ bookmarks = {}
    /\ nextId = [FirstIds EXCEPT !.user = 2, !.reef = 2, !.event = 2]
    /\ calls = [p \in Workers |-> <<>>]
    /\ IdleRest

NextStore ==
    \/ CustomUser_create
    \/ \E by \in users \cup {NULL} : Reef_create(by)
    \/ \E reef \in Ids(reefs), by \in users \cup {NULL} : Event_create(reef, by)
    \/ \E author \in users \cup {NULL} : Article_create(author)
    \/ \E reef \in Ids(reefs) \cup {NULL}, event \in Ids(events) \cup {NULL},
          by \in users \cup {NULL} : ImageGallery_create(reef, event, by)
    \/ \E user \in 1..(nextId.user - 1), reef \in 1..(nextId.reef - 1) :
           ReefBookmark_create(user, reef)
    \/ \E id \in Ids(bookmarks) : ReefBookmark_delete(id)
    \/ \E u \in users : CustomUser_delete(u)
    \/ \E r \in Ids(reefs) : Reef_delete(r)
    \/ \E e \in Ids(events) : Event_delete(e)
    \/ \E g \in Ids(gallery) : ImageGallery_delete(g)

SpecStore == InitStore /\ [][NextStore]_vars

----------------------------------------------------------------------------
(* Claims on deletion *)

\* C5: deleting a Reef removes, in the same operation, every Event whose reef
\* it is, every ImageGallery item linked to the Reef or to one of those
\* Events, and every ReefBookmark on the Reef; no such record remains.
C5_ReefDeleteCascades ==
    [][\A r \in Ids(reefs) \ Ids(reefs') :
           LET its == Ids({e \in events : e.reef = r})
           IN  /\ its \cap Ids(events') = {}
               /\ \A e \in events' : e.reef /= r
               /\ \A g \in gallery :
                      (g.reef = r \/ g.event \in its) => g.id \notin Ids(gallery')
               /\ \A g \in gallery' : g.reef /= r /\ g.event \notin its
               /\ \A b \in bookmarks : b.reef = r => b.id \notin Ids(bookmarks')
               /\ \A b \in bookmarks' : b.reef /= r]_vars

\* C5 witness: a reef was deleted that had an event, a gallery item linked to
\* it, a gallery item linked only to its event, and a bookmark
C5_Witness ==
    /\ last.op = "delete_reef"
    /\ {"event", "gallery_reef", "gallery_event", "bookmark"} \subseteq last.had
    /\ last.id \notin Ids(reefs)
    /\ events = {} /\ gallery = {} /\ bookmarks = {}

\* C6: deleting a User deletes every ReefBookmark of the user and no Reef,
\* Event, Article or ImageGallery record: each record that referred to the
\* user is still there, the reference null, its other fields as they were.
C6_UserDeleteNullifies ==
    [][\A u \in users \ users' :
           /\ bookmarks' = {b \in bookmarks : b.user /= u}
           /\ reefs' = {IF r.created_by = u THEN [r EXCEPT !.created_by = NULL] ELSE r :
                          r \in reefs}
           /\ events' = {IF e.reported_by = u THEN [e EXCEPT !.reported_by = NULL] ELSE e :
                           e \in events}
           /\ articles' = {IF a.author = u THEN [a EXCEPT !.author = NULL] ELSE a :
                             a \in articles}
           /\ gallery' = {IF g.uploaded_by = u THEN [g EXCEPT !.uploaded_by = NULL] ELSE g :
                            g \in gallery}
           /\ Ids(reefs') = Ids(reefs) /\ Ids(events') = Ids(events)
           /\ Ids(articles') = Ids(articles) /\ Ids(gallery') = Ids(gallery)]_vars

\* C6 witness: a user was deleted to whom a reef, an event, an article, a
\* gallery item and a bookmark referred; the first four are there, without
\* the reference, and the bookmark is not
C6_Witness ==
    /\ last.op = "delete_user"
    /\ last.had = {"reef", "event", "article", "gallery", "bookmark"}
    /\ last.id \notin users
    /\ \E r \in reefs : r.created_by = NULL
    /\ \E e \in events : e.reported_by = NULL
    /\ \E a \in articles : a.author = NULL
    /\ \E g \in gallery : g.uploaded_by = NULL
    /\ bookmarks = {}

----------------------------------------------------------------------------
(* Submission forms: core/forms.py, PollutionReportCreateView *)

\* PollutionReportForm.Meta.fields
PollutionReportForm_fields ==
    {"reef", "title", "description", "severity", "event_date", "notes"}

\* CoralSightingForm.Meta.fields
CoralSightingForm_fields_all ==
    {"reef", "title", "description", "event_date", "notes", "severity", "event_type"}

CoralSightingForm_fields == {"reef", "title", "description", "event_date", "notes"}

\* Event(): a new instance, with the defaults of the model's fields
NewEvent ==
    [reef |-> NULL, title |-> <<>>, event_type |-> "", severity |-> SEVERITY_DEFAULT,
     reported_by |-> NULL]

\* data[key] = value
Put(data, key, value) ==
    [k \in DOMAIN data \cup {key} |-> IF k = key THEN value ELSE data[k]]

\* what a client may send for each key of the POST data; a key may be left out
PostValues ==
    [reef |-> {1, 2},
     title |-> {<<"a">>},
     severity |-> {<<"low">>, <<"high">>, <<"x">>},
     event_type |-> {<<"damage">>, <<"x">>}]

RECURSIVE PostData(_)
\* the POST data over a set of keys
PostData(K) ==
    IF K = {} THEN {[csrf |-> "token"]}
    ELSE LET k == CHOOSE x \in K : TRUE
             rest == PostData(K \ {k})
         IN  rest \cup {Put(d, k, v) : d \in rest, v \in PostValues[k]}

\* a form field accepts the value sent
FieldValid(key, post) ==
    /\ key \in DOMAIN post
    /\ CASE key = "reef" -> post[key] \in Ids(reefs)
         [] key = "title" -> post[key] /= <<>>
         [] key = "severity" -> Len(post[key]) = 1 /\ post[key][1] \in SEVERITY_CHOICES
         [] key = "event_type" ->
                Len(post[key]) = 1 /\ post[key][1] \in EVENT_TYPE_CHOICES
         [] OTHER -> TRUE

\* the value a form field hands to the instance
Cleaned(key, post) ==
    IF key \in {"severity", "event_type"} THEN post[key][1] ELSE post[key]

\* ModelForm.is_valid(): every field of Meta.fields accepts what was sent
FormValid(fields, instance, post) ==
    \A key \in fields \cap DOMAIN instance : FieldValid(key, post)

\* ModelForm: the fields of Meta.fields that were sent and accepted are set on
\* the instance, the other attributes of the instance are left as they are
Construct(fields, instance, post) ==
    [key \in DOMAIN instance |->
        IF key \in fields /\ FieldValid(key, post)
        THEN Cleaned(key, post)
        ELSE instance[key]]

\* PollutionReportForm(data): __init__ pins event_type, validation fills the rest
PollutionReportForm(post) ==
    Construct(PollutionReportForm_fields,
              [NewEvent EXCEPT !.event_type = "pollution"], post)

\* CoralSightingForm(data): __init__ pins event_type and severity
CoralSightingForm(post) ==
    Construct(CoralSightingForm_fields,
              [NewEvent EXCEPT !.event_type = "sighting", !.severity = "low"], post)

\* PollutionReportCreateView.form_valid: the instance that is saved
form_valid(instance, user) ==
    [instance EXCEPT !.reported_by = user, !.event_type = "pollution"]

\* POST to PollutionReportCreateView
PollutionReportCreateView(actor, post) ==
    IF actor = NULL
    THEN \* LoginRequiredMixin: redirect to the login page
         /\ built' = [form |-> "pollution", outcome |-> "login", post |-> post,
                      instance |-> NewEvent, id |-> NULL]
         /\ UNCHANGED <<storeVars, calls, session, viewLog, resp, last>>
    ELSE IF ~FormValid(PollutionReportForm_fields, NewEvent, post)
    THEN \* form_invalid: the form is shown again
         /\ built' = [form |-> "pollution", outcome |-> "invalid", post |-> post,
                      instance |-> PollutionReportForm(post), id |-> NULL]
         /\ UNCHANGED <<storeVars, calls, session, viewLog, resp, last>>
    ELSE LET e == form_valid(PollutionReportForm(post), actor)
         IN  /\ RowsCreated < MaxRows
             /\ events' = events \cup
                    {EventRow(nextId.event, e.reef, e.event_type, e.severity, 1,
                              nextId.event, FALSE, e.reported_by)}
             /\ nextId' = [nextId EXCEPT !.event = @ + 1]
             /\ built' = [form |-> "pollution", outcome |-> "saved", post |-> post,
                          instance |-> e, id |-> nextId.event]
             /\ UNCHANGED <<users, reefs, articles, gallery, bookmarks,
                            calls, session, viewLog, resp, last>>

\* a CoralSightingForm bound to POST data and validated
CoralSightingForm_bound(post) ==
    /\ built' = [form |-> "sighting",
                 outcome |-> IF FormValid(CoralSightingForm_fields, NewEvent, post)
                             THEN "valid" ELSE "invalid",
                 post |-> post, instance |-> CoralSightingForm(post), id |-> NULL]
    /\ UNCHANGED <<storeVars, calls, session, viewLog, resp, last>>

InitForms == InitStore

NextForms ==
    \E post \in PostData({"reef", "title", "severity", "event_type"}) :
        \/ \E actor \in users \cup {NULL} : PollutionReportCreateView(actor, post)
        \/ CoralSightingForm_bound(post)

SpecForms == InitForms /\ [][NextForms]_vars

\* C7: every Event persisted through the pollution-report submission has
\* event_type 'pollution', and every Event built by the coral-sighting form
\* has event_type 'sighting' and severity 'low', whatever the client sent for
\* those fields.
C7_PinnedFields ==
    /\ (built.form = "pollution" /\ built.outcome = "saved") =>
           /\ built.id \in Ids(events)
           /\ \A e \in events : e.id = built.id => e.event_type = "pollution"
    /\ built.form = "sighting" =>
           /\ built.instance.event_type = "sighting"
           /\ built.instance.severity = "low"

\* C7 witness: a valid coral sighting was built whose POST data named another
\* event type and another severity, after a pollution report was saved
C7_Witness ==
    /\ built.form = "sighting" /\ built.outcome = "valid"
    /\ "event_type" \in DOMAIN built.post /\ built.post["event_type"] = <<"damage">>
    /\ "severity" \in DOMAIN built.post /\ built.post["severity"] = <<"high">>
    /\ \E e \in events : e.id > 1 /\ e.event_type = "pollution"

----------------------------------------------------------------------------
(* Query sets: what the listing views ask of the ORM *)

\* rows of the listed table in the store of SpecList
NumListed == 2

\* the code points of the characters the model uses
Code(c) ==
    CASE c = "A" -> 65
      [] c = "B" -> 66
      [] c = "a" -> 97
      [] c = "b" -> 98
      [] c = "c" -> 99
      [] OTHER -> 120

\* the place of a stored choice value among the values of its column, as
\* strings compare
Collation ==
    [critical |-> 1, excellent |-> 2, fair |-> 3, good |-> 4, high |-> 5,
     low |-> 6, medium |-> 7, poor |-> 8]

\* what a column value sorts by: numbers, so that values compare
SortValue(row, field) ==
    CASE field \in {"name", "title"} -> [i \in 1..Len(row[field]) |-> Code(row[field][i])]
      [] field \in {"health_status", "severity"} -> <<Collation[row[field]]>>
      [] field = "event_date" -> row[field]
      [] OTHER -> <<row[field]>>

\* a < b for two sequences of numbers, the first difference deciding
SeqLess(a, b) ==
    \E k \in 1..(IF Len(a) < Len(b) THEN Len(a) + 1 ELSE Len(b)) :
        /\ \A i \in 1..(k - 1) : a[i] = b[i]
        /\ IF k > Len(a) THEN TRUE ELSE a[k] < b[k]

DescendingNever(key) == FALSE

\* order_by key: a leading "-" asks for the descending order
Descending(key) == key[1] = "-"

OrderField(key) == IF key[1] = "-" THEN key[2] ELSE key[1]

\* row x must come before row y under one order_by key
KeyBefore(x, y, key) ==
    IF Descending(key)
    THEN SeqLess(SortValue(y, OrderField(key)), SortValue(x, OrderField(key)))
    ELSE SeqLess(SortValue(x, OrderField(key)), SortValue(y, OrderField(key)))

\* row x must come before row y under an ordering: the first key on which
\* they differ decides
MustPrecede(x, y, ordering) ==
    \E k \in 1..Len(ordering) :
        /\ \A i \in 1..(k - 1) :
               SortValue(x, OrderField(ordering[i])) = SortValue(y, OrderField(ordering[i]))
        /\ KeyBefore(x, y, ordering[k])

\* a query set: its rows and its ORDER BY
QuerySet(rows, ordering) == [rows |-> rows, ordering |-> ordering]

\* queryset.order_by(key) replaces the ordering
order_by(qs, key) == [qs EXCEPT !.ordering = <<key>>]

\* the row sequences the store may answer a query set with: rows the ORDER BY
\* does not order come in any order
Results(qs) ==
    {s \in SetToSeqs(qs.rows) :
        \A i \in 1..Len(s) : \A j \in (i + 1)..Len(s) :
            ~MustPrecede(s[j], s[i], qs.ordering)}

\* request.GET.get(key, default)
Get(GET, key, default) == IF key \in DOMAIN GET THEN GET[key] ELSE default

\* the decimal digits
Digit ==
    [c \in {"0", "1", "2", "3", "4", "5", "6", "7", "8", "9"} |->
        CASE c = "0" -> 0 [] c = "1" -> 1 [] c = "2" -> 2 [] c = "3" -> 3
          [] c = "4" -> 4 [] c = "5" -> 5 [] c = "6" -> 6 [] c = "7" -> 7
          [] c = "8" -> 8 [] OTHER -> 9]

\* the text is a decimal number: int(text) does not raise ValueError
IsNumber(t) == Len(t) > 0 /\ \A i \in 1..Len(t) : t[i] \in DOMAIN Digit

RECURSIVE IntOf(_)
\* int(text) of a decimal number
IntOf(t) ==
    IF t = <<>> THEN 0
    ELSE 10 * IntOf(SubSeq(t, 1, Len(t) - 1)) + Digit[t[Len(t)]]

\* the response of a listing view
Listing(view, GET, status, result) ==
    [view |-> view, GET |-> GET, status |-> status, result |-> result]

RECURSIVE QueryStrings(_, _)
\* the query strings that give each key of K no value or one of its values
QueryStrings(K, values) ==
    IF K = {} THEN {[path |-> "/"]}
    ELSE LET k == CHOOSE x \in K : TRUE
             rest == QueryStrings(K \ {k}, values)
         IN  rest \cup {Put(d, k, v) : d \in rest, v \in values[k]}

\* sort keys that are in no allow-list: unknown names, and the empty string
UnknownSorts == {<<"x">>, <<"-", "x">>, <<>>}

\* the texts of a listed row: the search terms "a" and "AB" hit the first in
\* its first text only, the second in its second text only, the third in its
\* third text only
ListedTexts ==
    {<< <<"a", "b">>, <<"c">>, <<"c">> >>,
     << <<"B">>, <<"A">>, <<"c">> >>,
     << <<"B">>, <<"c">>, <<"b", "a">> >>}

----------------------------------------------------------------------------
(* ReefListView: core/views.py *)

\* Reef.Meta.ordering
Reef_ordering == << <<"-", "created_at">> >>

\* the sort keys ReefListView accepts
ReefListView_sorts ==
    {<<"name">>, <<"-", "name">>, <<"area_km2">>, <<"-", "area_km2">>,
     <<"health_status">>, <<"-", "health_status">>,
     <<"created_at">>, <<"-", "created_at">>}

ReefSearchAll(r, q) ==
    icontains(r.name, q) /\ icontains(r.country, q) /\ icontains(r.description, q)

\* Q(name__icontains) | Q(country__icontains) | Q(description__icontains)
ReefSearch(r, q) ==
    icontains(r.name, q) \/ icontains(r.country, q) \/ icontains(r.description, q)

\* ReefListView.get_queryset, lines 92-117
ReefListView_get_queryset(GET) ==
    LET search_query == Get(GET, "search", <<>>)
        region == Get(GET, "region", <<>>)
        health == Get(GET, "health", <<>>)
        sort == Get(GET, "sort", <<"-", "created_at">>)
        q0 == QuerySet(reefs, Reef_ordering)
        q1 == IF search_query /= <<>>
              THEN [q0 EXCEPT !.rows = {r \in @ : ReefSearch(r, search_query)}]
              ELSE q0
        q2 == IF region /= <<>>
              THEN [q1 EXCEPT !.rows = {r \in @ : <<r.region>> = region}]
              ELSE q1
        q3 == IF health /= <<>>
              THEN [q2 EXCEPT !.rows = {r \in @ : <<r.health_status>> = health}]
              ELSE q2
    IN  IF sort \in ReefListView_sorts THEN order_by(q3, sort) ELSE q3

\* GET of the reef listing: the query set is evaluated, and lines 119-124
\* store the filters in the session
ReefListView(GET) ==
    /\ \E s \in Results(ReefListView_get_queryset(GET)) :
           resp' = Listing("reefs", GET, 200, s)
    /\ session' = SessionSet(session, "last_reef_filters",
                             [search |-> Get(GET, "search", <<>>),
                              region |-> Get(GET, "region", <<>>),
                              health |-> Get(GET, "health", <<>>)])
    /\ UNCHANGED <<storeVars, calls, viewLog, last, built>>

\* the requests of the reef listing: every combination of the filters with
\* no sort key, and every sort key with and without a filter
ReefRequests ==
    QueryStrings({"search", "region", "health"},
                 [search |-> {<<>>, <<"a">>, <<"A", "B">>},
                  region |-> {<<>>, <<"pacific">>, <<"x">>},
                  health |-> {<<"good">>, <<"x">>}])
    \cup QueryStrings({"region", "sort"},
                      [region |-> {<<"pacific">>},
                       sort |-> ReefListView_sorts \cup UnknownSorts])

\* health_status and area_km2 of a listed reef
ReefStates == {<<"good", 1>>, <<"poor", 1>>, <<"good", 2>>}

\* the reef tables of SpecList; created_at is set when the row is created, so
\* it grows with the id
ReefsListed == [1..NumListed -> ListedTexts \X {"pacific", "indian"} \X ReefStates]

InitReefList ==
    /\ \E f \in ReefsListed :
           reefs = {ReefRow(i, f[i][1][1], f[i][1][2], f[i][1][3], f[i][2],
                            f[i][3][1], f[i][3][2], i, NULL) : i \in 1..NumListed}
    /\ users = {}
    /\ events = {}
    /\ articles = {}
    /\ gallery = {}
    /\ bookmarks = {}
    /\ nextId = [FirstIds EXCEPT !.reef = NumListed + 1]
    /\ calls = [p \in Workers |-> <<>>]
    /\ IdleRest

----------------------------------------------------------------------------
(* ArticleListView: core/views.py *)

\* Article.Meta.ordering
Article_ordering == << <<"-", "created_at">> >>

\* the sort keys ArticleListView accepts
ArticleListView_sorts ==
    {<<"title">>, <<"-", "title">>, <<"created_at">>, <<"-", "created_at">>}

\* Q(title__icontains) | Q(content__icontains) | Q(excerpt__icontains)
ArticleSearch(a, q) ==
    icontains(a.title, q) \/ icontains(a.content, q) \/ icontains(a.excerpt, q)

\* ArticleListView.get_queryset, lines 186-208
ArticleListView_get_queryset(GET) ==
    LET search_query == Get(GET, "search", <<>>)
        category == Get(GET, "category", <<>>)
        sort == Get(GET, "sort", <<"-", "created_at">>)
        q0 == QuerySet({a \in articles : a.published}, Article_ordering)
        q1 == IF search_query /= <<>>
              THEN [q0 EXCEPT !.rows = {a \in @ : ArticleSearch(a, search_query)}]
              ELSE q0
        q2 == IF category /= <<>>
              THEN [q1 EXCEPT !.rows = {a \in @ : <<a.category>> = category}]
              ELSE q1
    IN  IF sort \in ArticleListView_sorts THEN order_by(q2, sort) ELSE q2

\* GET of the article listing
ArticleListView(GET) ==
    /\ \E s \in Results(ArticleListView_get_queryset(GET)) :
           resp' = Listing("articles", GET, 200, s)
    /\ UNCHANGED <<storeVars, calls, session, viewLog, last, built>>

ArticleRequests ==
    QueryStrings({"search", "category"},
                 [search |-> {<<"a">>, <<"A", "B">>},
                  category |-> {<<>>, <<"news">>, <<"x">>}])
    \cup QueryStrings({"category", "sort"},
                      [category |-> {<<"news">>},
                       sort |-> ArticleListView_sorts \cup UnknownSorts])

\* the article tables of SpecList
ArticlesListed == [1..NumListed -> ListedTexts \X {"news", "research"} \X BOOLEAN]

InitArticleList ==
    /\ \E f \in ArticlesListed :
           articles = {ArticleRow(i, f[i][1][1], f[i][1][2], f[i][1][3], f[i][2],
                                  i, f[i][3], NULL) : i \in 1..NumListed}
    /\ users = {}
    /\ reefs = {}
    /\ events = {}
    /\ gallery = {}
    /\ bookmarks = {}
    /\ nextId = [FirstIds EXCEPT !.article = NumListed + 1]
    /\ calls = [p \in Workers |-> <<>>]
    /\ IdleRest

----------------------------------------------------------------------------
(* EventListView: core/views.py *)

\* Event.Meta.ordering
Event_ordering == << <<"-", "event_date">>, <<"-", "created_at">> >>

\* the sort keys EventListView accepts
EventListView_sorts ==
    {<<"event_date">>, <<"-", "event_date">>, <<"severity">>, <<"-", "severity">>,
     <<"created_at">>, <<"-", "created_at">>}

\* EventListView.get_queryset, lines 239-267, for a year that is empty or a
\* number
EventListView_get_queryset(GET) ==
    LET event_type == Get(GET, "event_type", <<>>)
        severity == Get(GET, "severity", <<>>)
        year == Get(GET, "year", <<>>)
        resolved == Get(GET, "resolved", <<>>)
        sort == Get(GET, "sort", <<"-", "event_date">>)
        q0 == QuerySet(events, Event_ordering)
        q1 == IF event_type /= <<>>
              THEN [q0 EXCEPT !.rows = {e \in @ : <<e.event_type>> = event_type}]
              ELSE q0
        q2 == IF severity /= <<>>
              THEN [q1 EXCEPT !.rows = {e \in @ : <<e.severity>> = severity}]
              ELSE q1
        q3 == IF year /= <<>>
              THEN [q2 EXCEPT !.rows = {e \in @ : e.event_date[1] = IntOf(year)}]
              ELSE q2
        q4 == IF resolved \in {<<"true">>, <<"false">>}
              THEN [q3 EXCEPT !.rows = {e \in @ : e.resolved = (resolved = <<"true">>)}]
              ELSE q3
    IN  IF sort \in EventListView_sorts THEN order_by(q4, sort) ELSE q4

\* GET of the event listing; event_date__year=year raises ValueError for a
\* year that is not a number, and the request ends in a server error
EventListView(GET) ==
    /\ IF Get(GET, "year", <<>>) /= <<>> /\ ~IsNumber(Get(GET, "year", <<>>))
       THEN resp' = Listing("events", GET, 500, <<>>)
       ELSE \E s \in Results(EventListView_get_queryset(GET)) :
                resp' = Listing("events", GET, 200, s)
    /\ UNCHANGED <<storeVars, calls, session, viewLog, last, built>>

EventRequests ==
    QueryStrings({"event_type", "severity"},
                 [event_type |-> {<<"bleaching">>, <<"x">>},
                  severity |-> {<<>>, <<"low">>, <<"x">>}])
    \cup QueryStrings({"year", "resolved"},
                      [year |-> {<<"2", "0", "2", "4">>, <<"x">>},
                       resolved |-> {<<"true">>, <<"false">>, <<"x">>}])
    \cup QueryStrings({"severity", "sort"},
                      [severity |-> {<<"low">>},
                       sort |-> EventListView_sorts \cup UnknownSorts])

\* event_date of a listed event, as year and day of the year
EventDates == {<<2023, 1>>, <<2024, 1>>, <<2024, 2>>}

\* event_type and resolved of a listed event
EventStates == {<<"bleaching", FALSE>>, <<"pollution", FALSE>>, <<"bleaching", TRUE>>}

\* the event tables of SpecList, all on one reef
EventsListed == [1..NumListed -> EventStates \X {"low", "high"} \X EventDates]

InitEventList ==
    /\ \E f \in EventsListed :
           events = {EventRow(i, 1, f[i][1][1], f[i][2], f[i][3], i, f[i][1][2], NULL)
                        : i \in 1..NumListed}
    /\ users = {}
    /\ reefs = {ReefRow(1, <<"a">>, <<"a">>, <<"a">>, "pacific", "good", 1, 1, NULL)}
    /\ articles = {}
    /\ gallery = {}
    /\ bookmarks = {}
    /\ nextId = [FirstIds EXCEPT !.reef = 2, !.event = NumListed + 1]
    /\ calls = [p \in Workers |-> <<>>]
    /\ IdleRest

----------------------------------------------------------------------------
(* The listings, each asked of the store that holds its rows *)

InitList == InitReefList \/ InitArticleList \/ InitEventList

\* one request is followed
NextList ==
    \/ /\ resp.view = "none"
       /\ events = {}
       /\ articles = {}
       /\ \E GET \in ReefRequests : ReefListView(GET)
    \/ /\ resp.view = "none"
       /\ articles /= {}
       /\ \E GET \in ArticleRequests : ArticleListView(GET)
    \/ /\ resp.view = "none"
       /\ events /= {}
       /\ \E GET \in EventRequests : EventListView(GET)

SpecList == InitList /\ [][NextList]_vars

----------------------------------------------------------------------------
(* Claims about the listings *)

\* the request gives the parameter a value that is not empty
Given(GET, key) == key \in DOMAIN GET /\ GET[key] /= <<>>

\* the request without one of its parameters
Without(GET, key) == [k \in DOMAIN GET \ {key} |-> GET[k]]

\* the allow-list of the listing that answered
SortsOf(view) ==
    CASE view = "reefs" -> ReefListView_sorts
      [] view = "articles" -> ArticleListView_sorts
      [] view = "events" -> EventListView_sorts

\* the query set the listing that answered builds for a request
QuerySetOf(view, GET) ==
    CASE view = "reefs" -> ReefListView_get_queryset(GET)
      [] view = "articles" -> ArticleListView_get_queryset(GET)
      [] view = "events" -> EventListView_get_queryset(GET)

\* a listing answered with rows
Listed == resp.view \in {"reefs", "articles", "events"} /\ resp.status = 200

C9_UnknownSortIsNoSort ==
    Listed =>
        /\ ("sort" \in DOMAIN resp.GET /\ resp.GET.sort \notin SortsOf(resp.view)) =>
               resp.result \in Results(QuerySetOf(resp.view, Without(resp.GET, "sort")))
        /\ "sort" \notin DOMAIN resp.GET =>
               \A u \in UnknownSorts :
                   resp.result \in Results(QuerySetOf(resp.view, Put(resp.GET, "sort", u)))

\* C10: in each listing a request whose sort key is in the allow-list
\* returns the rows of the same request without the sort key, each once,
\* ordered by the named field: never a larger value before a smaller one for
\* a bare field name, never a smaller before a larger one for a name
\* prefixed with "-".
C10_AllowedSortOrders ==
    (Listed /\ "sort" \in DOMAIN resp.GET /\ resp.GET.sort \in SortsOf(resp.view)) =>
        LET key == resp.GET.sort
            field == key[Len(key)]
            s == resp.result
        IN  /\ Range(s) = QuerySetOf(resp.view, Without(resp.GET, "sort")).rows
            /\ Len(s) = Cardinality(Range(s))
            /\ \A i \in 1..(Len(s) - 1) :
                   IF key[1] = "-"
                   THEN ~SeqLess(SortValue(s[i], field), SortValue(s[i + 1], field))
                   ELSE ~SeqLess(SortValue(s[i + 1], field), SortValue(s[i], field))

\* the event listing, sorted by "-severity", returns a less severe-sorting
\* event that is newer and later-dated after another one
C10_Witness ==
    /\ resp.view = "events"
    /\ resp.status = 200
    /\ "sort" \in DOMAIN resp.GET
    /\ resp.GET.sort = <<"-", "severity">>
    /\ Len(resp.result) >= 2
    /\ resp.result[1].severity = "low"
    /\ resp.result[2].severity = "high"
    /\ resp.result[1].created_at < resp.result[2].created_at

\* Article.category choices
CATEGORY_CHOICES == {"education", "research", "news", "conservation", "restoration"}

\* the value is one the column or the allow-list behind the parameter knows
KnownValue(view, key, v) ==
    CASE key = "region" -> \E c \in REGION_CHOICES : v = <<c>>
      [] key = "health" -> \E c \in HEALTH_CHOICES : v = <<c>>
      [] key = "category" -> \E c \in CATEGORY_CHOICES : v = <<c>>
      [] key = "event_type" -> \E c \in EVENT_TYPE_CHOICES : v = <<c>>
      [] key = "severity" -> \E c \in SEVERITY_CHOICES : v = <<c>>
      [] key = "year" -> IsNumber(v)
      [] key = "resolved" -> v \in {<<"true">>, <<"false">>}
      [] key = "sort" -> v \in SortsOf(view)
      [] OTHER -> TRUE

\* C11: every listing request ends without an error, and for every filter or
\* sort parameter whose value is unknown or invalid the answer is one the
\* same request without that parameter may give.
C11_UnknownValuesDegrade ==
    resp.view \in {"reefs", "articles", "events"} =>
        /\ resp.status = 200
        /\ \A k \in DOMAIN resp.GET :
               ~KnownValue(resp.view, k, resp.GET[k]) =>
                   resp.result \in Results(QuerySetOf(resp.view, Without(resp.GET, k)))

----------------------------------------------------------------------------
(* ImageUploadForm: core/forms.py *)

\* str.lower() on a text
LowerText(t) == [i \in 1..Len(t) |-> Lower(t[i])]

\* file.name.split('.')[-1] : what follows the last dot, the whole name when
\* it has no dot
LastSegment(name) ==
    LET dots == {i \in 1..Len(name) : name[i] = "."}
    IN  IF dots = {} THEN name
        ELSE SubSeq(name, (CHOOSE i \in dots : \A j \in dots : j <= i) + 1, Len(name))

FileExtAsSent(name) == LastSegment(name)

\* file_ext = file.name.split('.')[-1].lower()
FileExt(name) == LowerText(LastSegment(name))

\* the extensions ImageUploadForm.clean takes for a video
CLEAN_VIDEO_EXTS ==
    {<<"m", "p", "4">>, <<"m", "o", "v">>, <<"a", "v", "i">>, <<"m", "k", "v">>,
     <<"w", "e", "b", "m">>}

\* the extensions ImageUploadForm.clean takes for an image
CLEAN_IMAGE_EXTS ==
    {<<"j", "p", "g">>, <<"j", "p", "e", "g">>, <<"p", "n", "g">>, <<"g", "i", "f">>,
     <<"b", "m", "p">>, <<"w", "e", "b", "p">>}

PHOTO_BUT_VIDEO ==
    "You selected \"Photo\" but uploaded a video file. Please select \"Video\" as media type."

VIDEO_BUT_IMAGE ==
    "You selected \"Video\" but uploaded an image file. Please select \"Photo\" as media type."

\* ImageGallery.MEDIA_TYPE_CHOICES
MEDIA_TYPE_CHOICES == {"photo", "video"}

\* FileValidator, of core/validators.py: it enforces a size ceiling (10MB for
\* images, 50MB for video) and a set of allowed extensions. Which extensions,
\* and how it tells an image from a video, is not stated: a file above 50MB
\* is refused, any other file is accepted or refused.
FileValidator(file) == IF file.size > 50 THEN {FALSE} ELSE BOOLEAN

\* forms.FileField.clean followed by the field's validators: a file must be
\* sent, must not be empty, and must pass FileValidator
FileFieldErrors(post, verdict) ==
    IF "file" \notin DOMAIN post THEN {<<"file", "This field is required.">>}
    ELSE IF post.file.size = 0 THEN {<<"file", "The submitted file is empty.">>}
    ELSE IF ~verdict THEN {<<"file", "FileValidator">>}
    ELSE {}

\* the errors of the other fields: reef and event are optional model
\* choices, media_type a required choice, title a required text
OtherFieldErrors(post) ==
    {<<"reef", "Select a valid choice.">> : x \in
        {k \in {"reef"} : k \in DOMAIN post /\ post[k] \notin Ids(reefs)}}
    \cup {<<"event", "Select a valid choice.">> : x \in
        {k \in {"event"} : k \in DOMAIN post /\ post[k] \notin Ids(events)}}
    \cup {<<"media_type", "This field is required.">> : x \in
        {k \in {"media_type"} : k \notin DOMAIN post}}
    \cup {<<"media_type", "Select a valid choice.">> : x \in
        {k \in {"media_type"} :
            k \in DOMAIN post /\ ~\E c \in MEDIA_TYPE_CHOICES : post[k] = <<c>>}}
    \cup {<<"title", "This field is required.">> : x \in
        {k \in {"title"} : k \notin DOMAIN post}}

\* ImageUploadForm.clean, lines 218-236: cleaned_data holds the fields that
\* had no error of their own
ImageUploadForm_clean(post, fieldErrors) ==
    LET has(k) == k \in DOMAIN post /\ ~\E e \in fieldErrors : e[1] = k
    IN  IF has("file") /\ has("media_type")
        THEN IF post.media_type = <<"photo">> /\ FileExt(post.file.name) \in CLEAN_VIDEO_EXTS
             THEN {<<"__all__", PHOTO_BUT_VIDEO>>}
             ELSE IF post.media_type = <<"video">>
                     /\ FileExt(post.file.name) \in CLEAN_IMAGE_EXTS
             THEN {<<"__all__", VIDEO_BUT_IMAGE>>}
             ELSE {}
        ELSE {}

\* form.errors after full_clean: the fields, then clean()
ImageUploadForm_errors(post, verdict) ==
    LET fieldErrors == FileFieldErrors(post, verdict) \cup OtherFieldErrors(post)
    IN  fieldErrors \cup ImageUploadForm_clean(post, fieldErrors)

\* POST of an upload: the form is bound and validated, and saved when it has
\* no error (ModelForm.save refuses a form with errors)
ImageUploadForm(post) ==
    /\ \E verdict \in IF "file" \in DOMAIN post /\ post.file.size > 0
                      THEN FileValidator(post.file) ELSE {TRUE} :
           LET errors == ImageUploadForm_errors(post, verdict)
           IN  IF errors /= {}
               THEN /\ built' = [form |-> "upload", outcome |-> "invalid", post |-> post,
                                 errors |-> errors, id |-> NULL]
                    /\ UNCHANGED <<storeVars, calls, session, viewLog, resp, last>>
               ELSE /\ gallery' = gallery \cup
                           {GalleryRow(nextId.gallery, Get(post, "reef", NULL),
                                       Get(post, "event", NULL), post.media_type[1], NULL)}
                    /\ nextId' = [nextId EXCEPT !.gallery = @ + 1]
                    /\ built' = [form |-> "upload", outcome |-> "saved", post |-> post,
                                 errors |-> errors, id |-> nextId.gallery]
                    /\ UNCHANGED <<users, reefs, events, articles, bookmarks,
                                   calls, session, viewLog, resp, last>>

\* every letter case of a text
LetterCases(t) ==
    {s \in [1..Len(t) -> {t[i] : i \in 1..Len(t)} \cup
                             {u \in DOMAIN LowerOf : \E i \in 1..Len(t) : LowerOf[u] = t[i]}] :
        LowerText(s) = t}

\* the file names sent: a stem, a dot and an extension in every letter case;
\* a name of two extensions, a name without extension, a name with an
\* extension that is neither image nor video
UploadNames ==
    {<<"c", ".">> \o e :
        e \in UNION {LetterCases(x) : x \in CLEAN_VIDEO_EXTS \cup CLEAN_IMAGE_EXTS}}
    \cup {<<"c", ".", "j", "p", "g", ".", "m", "p", "4">>,
          <<"c", ".", "m", "p", "4", ".", "j", "p", "g">>,
          <<"m", "p", "4">>, <<"j", "p", "g">>, <<"c", ".", "t", "x", "t">>, <<"c", ".">>}

\* the files sent, with their size in MB
UploadFiles == [name : UploadNames, size : {0, 1, 60}]

UploadPosts ==
    QueryStrings({"reef", "event", "media_type", "title", "file"},
                 [reef |-> {1, 9}, event |-> {1},
                  media_type |-> {<<"photo">>, <<"video">>, <<"x">>},
                  title |-> {<<"a">>},
                  file |-> UploadFiles])

InitUpload == InitStore

\* one upload is followed
NextUpload == built.form = "none" /\ \E post \in UploadPosts : ImageUploadForm(post)

SpecUpload == InitUpload /\ [][NextUpload]_vars

----------------------------------------------------------------------------
(* Claims about the upload form *)

\* the name ends in a dot and the extension, in any letter case
EndsIn(name, ext) ==
    /\ Len(name) > Len(ext)
    /\ name[Len(name) - Len(ext)] = "."
    /\ \A j \in 1..Len(ext) : Lower(name[Len(name) - Len(ext) + j]) = ext[j]

\* an upload declared as the one media type, of a file named as the other
Mismatch(post, media_type, exts) ==
    /\ "media_type" \in DOMAIN post
    /\ post.media_type = <<media_type>>
    /\ "file" \in DOMAIN post
    /\ \E e \in exts : EndsIn(post.file.name, e)

\* the upload was refused and the gallery is as it was, empty
NotPersisted == built.outcome = "invalid" /\ built.id = NULL /\ gallery = {}

\* the form shows the one message and not the other
Shows(msg, other) ==
    <<"__all__", msg>> \in built.errors /\ <<"__all__", other>> \notin built.errors

\* the file field accepted the file: it is not empty and FileValidator
\* passed it
FileAccepted == ~\E e \in built.errors : e[1] = "file"

\* C12 as stated: every upload declared a photo whose file name ends in a
\* video extension is refused with the Photo-but-video message, every upload
\* declared a video whose file name ends in an image extension is refused
\* with the Video-but-image message, in any letter case of the extension,
\* and no ImageGallery row is stored.
C12_MismatchMessage ==
    built.form = "upload" =>
        /\ Mismatch(built.post, "photo", CLEAN_VIDEO_EXTS) =>
               NotPersisted /\ Shows(PHOTO_BUT_VIDEO, VIDEO_BUT_IMAGE)
        /\ Mismatch(built.post, "video", CLEAN_IMAGE_EXTS) =>
               NotPersisted /\ Shows(VIDEO_BUT_IMAGE, PHOTO_BUT_VIDEO)

\* C12, amended: such an upload is always refused and stores no row; it is
\* refused with its message, and not the other one, when the file field
\* itself accepted the file.
C12_MismatchMessageForAcceptedFile ==
    built.form = "upload" =>
        /\ Mismatch(built.post, "photo", CLEAN_VIDEO_EXTS) =>
               NotPersisted /\ (FileAccepted => Shows(PHOTO_BUT_VIDEO, VIDEO_BUT_IMAGE))
        /\ Mismatch(built.post, "video", CLEAN_IMAGE_EXTS) =>
               NotPersisted /\ (FileAccepted => Shows(VIDEO_BUT_IMAGE, PHOTO_BUT_VIDEO))

\* a video declared with a title, of an accepted file named c.JpEg, is
\* refused with the Video-but-image message alone
C12_Witness ==
    /\ built.form = "upload"
    /\ Mismatch(built.post, "video", CLEAN_IMAGE_EXTS)
    /\ built.post.file.name = <<"c", ".", "J", "p", "E", "g">>
    /\ built.errors = {<<"__all__", VIDEO_BUT_IMAGE>>}
    /\ NotPersisted

----------------------------------------------------------------------------
(* A session that lists the reefs and views their pages *)

InitFilters ==
    /\ reefs = {ReefRow(i, <<"a", "b">>, <<"c">>, <<"c">>, "pacific", "good", 1, i, NULL) :
                  i \in 1..NumListed}
    /\ users = {}
    /\ events = {}
    /\ articles = {}
    /\ gallery = {}
    /\ bookmarks = {}
    /\ nextId = [FirstIds EXCEPT !.reef = NumListed + 1]
    /\ calls = [p \in Workers |-> <<>>]
    /\ IdleRest

\* the listing requests of the session: each filter absent, empty or given
FilterRequests ==
    QueryStrings({"search", "region", "health"},
                 [search |-> {<<>>, <<"a">>},
                  region |-> {<<"pacific">>},
                  health |-> {<<"x">>}])

NextFilters ==
    \/ \E GET \in FilterRequests : ReefListView(GET)
    \/ \E reef_id \in 1..NumListed : ReefDetailView(reef_id)

SpecFilters == InitFilters /\ [][NextFilters]_vars

\* C13: a reef listing request leaves in the session's last_reef_filters
\* exactly the search, region and health values of that request, the empty
\* string for an absent one, whatever was stored before, and leaves every
\* other key of the session, viewed_reefs among them, as it was.
C13_ListingStoresFilters ==
    [][resp' /= resp =>
          /\ DOMAIN session' = DOMAIN session \cup {"last_reef_filters"}
          /\ session'["last_reef_filters"] =
                 [search |-> IF "search" \in DOMAIN resp'.GET THEN resp'.GET.search ELSE <<>>,
                  region |-> IF "region" \in DOMAIN resp'.GET THEN resp'.GET.region ELSE <<>>,
                  health |-> IF "health" \in DOMAIN resp'.GET THEN resp'.GET.health ELSE <<>>]
          /\ \A k \in DOMAIN session \ {"last_reef_filters"} : session'[k] = session[k]]_vars

\* a session that has viewed reefs lists them with a search text and no
\* region: the filters hold the text and the empty string, next to the viewed
\* reefs
C13_Witness ==
    /\ resp.view = "reefs"
    /\ "region" \notin DOMAIN resp.GET
    /\ "viewed_reefs" \in DOMAIN session
    /\ Len(session["viewed_reefs"]) = NumListed
    /\ session["last_reef_filters"].search = <<"a">>
    /\ session["last_reef_filters"].region = <<>>
    /\ session["last_reef_filters"].health = <<"x">>

----------------------------------------------------------------------------
(* ArticleDetailView: core/views.py *)

ArticleDetailView_all == articles

\* ArticleDetailView.get_queryset
ArticleDetailView_get_queryset == {a \in articles : a.published}

\* GET of an article page: get_object looks the key of the URL up in the
\* query set, and raises Http404 when it is not there
ArticleDetailView(key) ==
    /\ LET found == {a \in ArticleDetailView_get_queryset : a.id = key}
       IN  resp' = IF found = {}
                   THEN [view |-> "article", key |-> key, status |-> 404, result |-> <<>>]
                   ELSE [view |-> "article", key |-> key, status |-> 200,
                         result |-> <<CHOOSE a \in found : TRUE>>]
    /\ UNCHANGED <<storeVars, calls, session, viewLog, last, built>>

\* one request is followed, for the listing or for the page of an article
\* or of a key no article has
NextArticles ==
    \/ /\ resp.view = "none"
       /\ \E GET \in ArticleRequests : ArticleListView(GET)
    \/ /\ resp.view = "none"
       /\ \E key \in 1..(NumListed + 1) : ArticleDetailView(key)

SpecArticles == InitArticleList /\ [][NextArticles]_vars

\* C14: the article listing returns only published articles, whatever the
\* search, category and sort, and the article page is served for a published
\* article and answers not found for an unpublished one (and for no article).
C14_OnlyPublished ==
    /\ resp.view = "articles" =>
           \A i \in 1..Len(resp.result) :
               resp.result[i] \in articles /\ resp.result[i].published
    /\ resp.view = "article" =>
           IF \E a \in articles : a.id = resp.key /\ a.published
           THEN resp.status = 200 /\ resp.result[1].id = resp.key
           ELSE resp.status = 404 /\ resp.result = <<>>

\* the page of an unpublished article was asked for and not found, in a
\* store that also has a published article
C14_Witness ==
    /\ resp.view = "article"
    /\ resp.status = 404
    /\ \E a \in articles : a.id = resp.key /\ ~a.published
    /\ \E a \in articles : a.published

----------------------------------------------------------------------------
(* Claims about concurrent toggles *)

\* two workers have each made one call, for the same user and reef, and both
\* calls have been answered; no other call was made
TwoTogglesDone ==
    /\ CallsOf(Workers) = 2
    /\ Len(calls[1]) = 1
    /\ Len(calls[2]) = 1
    /\ calls[1][1].pc = "done"
    /\ calls[2][1].pc = "done"
    /\ calls[1][1].actor /= NULL
    /\ calls[1][1].actor = calls[2][1].actor
    /\ calls[1][1].reef_id = calls[2][1].reef_id
    /\ \E r \in reefs : r.id = calls[1][1].reef_id

\* the bookmarks in the store when the first of the two calls began. A call
\* changes the store in its last step only, so two calls that overlap both
\* began on the initial store, and both saw a step of the other; of two
\* calls that do not overlap, only the first saw a step of the other.
RowsAtFirstCall ==
    IF calls[1][1].quiet /\ ~calls[2][1].quiet
    THEN calls[2][1].before
    ELSE calls[1][1].before

\* C15: whatever the interleaving of the steps of two toggles of one user on
\* one reef, one call answers bookmarked=true, the other bookmarked=false,
\* and the bookmark is present at the end exactly when it was at the start.
C15_TogglesSerialize ==
    TwoTogglesDone =>
        /\ {calls[1][1].bookmarked, calls[2][1].bookmarked} = {"true", "false"}
        /\ (PairRows(bookmarks, calls[1][1].actor, calls[1][1].reef_id) /= {})
               = (PairRows(RowsAtFirstCall, calls[1][1].actor, calls[1][1].reef_id) /= {})

----------------------------------------------------------------------------
(* Claim on the references of the store *)

\* a foreign key that may be null refers to nothing or to a row that exists
NullOr(ref, ids) == ref = NULL \/ ref \in ids

\* C16: after any sequence of creations, bookmark toggles and deletions the
\* store has no dangling reference: every Event's reef exists, every
\* ReefBookmark's user and reef exist, every ImageGallery item's non-null reef
\* and non-null event exist, and every non-null created_by, reported_by,
\* author and uploaded_by is an existing user.
C16_NoDanglingReference ==
    /\ \A r \in reefs : NullOr(r.created_by, users)
    /\ \A e \in events : e.reef \in Ids(reefs) /\ NullOr(e.reported_by, users)
    /\ \A a \in articles : NullOr(a.author, users)
    /\ \A g \in gallery :
           /\ NullOr(g.reef, Ids(reefs))
           /\ NullOr(g.event, Ids(events))
           /\ NullOr(g.uploaded_by, users)
    /\ \A b \in bookmarks : b.user \in users /\ b.reef \in Ids(reefs)

\* a reef that had an event with a gallery item, and a bookmark, was deleted,
\* and the user who had created it is still there
C16_Witness ==
    /\ last.op = "delete_reef"
    /\ {"event", "gallery_event", "bookmark"} \subseteq last.had
    /\ users /= {}
    /\ reefs = {}

====
